---- MODULE Spec2Model ----
(***************************************************************************)
(* PRP dosage calculator (src/api/calculate.js, canonical variant with     *)
(* recovery/activation rates and the double-spin protocol, lines 1-433).   *)
(*                                                                         *)
(* One request is modelled as a run of the state machine: the input is     *)
(* parsed and validated, then each zone is resolved by getTreatmentPlan    *)
(* (one step per invocation of the recursive function), reported, and      *)
(* finally the concentration feedback is produced.                         *)
(*                                                                         *)
(* Arithmetic.  The code computes in IEEE doubles; the model computes the  *)
(* same expressions exactly, over integers, in these units:                *)
(*   thrombocytes                 50 G/L                                   *)
(*   prp_yield, volumes           0.5 mL                                   *)
(*   prp/ppp_concentration        0.5 (multiplier)                         *)
(*   concentrations per uL        6250 platelets/uL                        *)
(*   platelet totals              3.125e6 (= 0.5 mL * 6250/uL * 1000)      *)
(*   recovery/activation rate     percent; effective rate in 1/5 percent   *)
(*   platelets/uL after recovery  1 platelet/uL                            *)
(* A PPP volume is a fraction num/den of 0.5 mL; the totals derived from   *)
(* it share the denominator. Doubles and exact values decide every         *)
(* comparison of the code alike except one: after a dilution whose         *)
(* quotient (line 95) is not a binary fraction, the computed mixture       *)
(* concentration is 1,500,000 or a neighbouring double, and "> 1,500,000"  *)
(* may hold. The model keeps the exact value in the plan and leaves the    *)
(* outcome of that comparison open, the same for the same operands         *)
(* (variable fpu). An input field is <<>> when absent from the JSON body   *)
(* and <<n>> when present with the JSON number n (fields sent as strings   *)
(* are outside the model). The handler (lines 337-433) is modelled around  *)
(* the same call: HandlerSpec serves one HTTP request.                     *)
(***************************************************************************)
EXTENDS Integers, Sequences, FiniteSets, TLC

\* ---------------------------------------------------------------- bounds
MaxThrombocytes == 10
MaxPrpYield == 6
MaxPrpConcentration == 14
\* calls of calculatePRPDosage made one after the other in ReplaySpec
MaxCalls == 3

\* ------------------------------------------------------------- constants
ZONES_CONFIG ==
    << [ key |-> "temporal_crown", minPlatelets |-> 576, maxPlatelets |-> 1600,
         targetPlatelets |-> 800, minVolume |-> 4 ],
       [ key |-> "full_scalp", minPlatelets |-> 1152, maxPlatelets |-> 3200,
         targetPlatelets |-> 1920, minVolume |-> 8 ] >>

OPTIMAL_MIN_PLATELETS_PER_UL == 160
OPTIMAL_MAX_PLATELETS_PER_UL == 240

DOUBLE_SPIN_CONFIG_INIT ==
    [ enabled |-> TRUE, minConcentrationThreshold |-> 160,
      concentrationMultiplier |-> 7, prpYieldPerTube |-> 4,
      requiresEvenTubes |-> TRUE ]

\* the iteration budget of getTreatmentPlan: "if (iteration < 3)"
MAX_ITERATION == 3

\* ---------------------------------------------------------------- inputs
Absent == <<>>

ThrombocyteInputs == {Absent} \cup { <<n>> : n \in -1..MaxThrombocytes }
PrpYieldInputs == {Absent} \cup { <<n>> : n \in -1..MaxPrpYield }
PrpConcentrationInputs == {Absent} \cup { <<n>> : n \in -1..MaxPrpConcentration }
PppConcentrationInputs == {Absent, <<0>>, <<5>>, <<16>>}
RecoveryRateInputs == {Absent, <<-1>>, <<0>>, <<40>>, <<100>>, <<101>>}
ActivationRateInputs == {Absent, <<-1>>, <<50>>, <<101>>}

InputSpace ==
    [ thrombocytes : ThrombocyteInputs,
      prp_yield : PrpYieldInputs,
      prp_concentration : PrpConcentrationInputs,
      ppp_concentration : PppConcentrationInputs,
      recovery_rate : RecoveryRateInputs,
      activation_rate : ActivationRateInputs ]

\* the requests that leave both rates to their defaults
DefaultRateInputs ==
    [ thrombocytes : ThrombocyteInputs,
      prp_yield : PrpYieldInputs,
      prp_concentration : PrpConcentrationInputs,
      ppp_concentration : PppConcentrationInputs,
      recovery_rate : {Absent},
      activation_rate : {Absent} ]

\* the requests replayed in ReplaySpec: 100, 250 and 500 G/L, single and double
\* spin, in and above the window, and one request that fails validation
ReplayInputs ==
    [ thrombocytes : {<<0>>, <<2>>, <<5>>, <<10>>},
      prp_yield : {Absent, <<1>>},
      prp_concentration : {Absent, <<14>>},
      ppp_concentration : {Absent},
      recovery_rate : {Absent, <<100>>},
      activation_rate : {Absent} ]

\* the requests compared in ActivationSpec: the first call of a pair, and the
\* activation rates the second call may carry instead (absent is 20 %)
ActivationInputs ==
    [ thrombocytes : ThrombocyteInputs,
      prp_yield : PrpYieldInputs,
      prp_concentration : PrpConcentrationInputs,
      ppp_concentration : {Absent, <<5>>},
      recovery_rate : {Absent, <<40>>},
      activation_rate : {Absent, <<50>>} ]

OtherActivationRates == {Absent, <<50>>, <<100>>}

\* the requests sent to the handler: every method it tells apart and one it
\* does not, with and without the bearer token, without a body (NoInput), with
\* the body {} and with bodies that fail each check of the handler and of
\* calculatePRPDosage (50 and 200 G/L are double-spin requests)
Methods == {"OPTIONS", "GET", "POST", "PUT"}

HandlerBodies ==
    [ thrombocytes : {Absent, <<-1>>, <<0>>, <<1>>, <<4>>},
      prp_yield : {Absent, <<-1>>, <<0>>},
      prp_concentration : {Absent, <<-1>>, <<14>>},
      ppp_concentration : {Absent},
      recovery_rate : {Absent, <<-1>>, <<101>>},
      activation_rate : {Absent, <<101>>} ]

\* ------------------------------------------------------------ arithmetic
CeilDiv(a, b) == (a + b - 1) \div b

\* Math.round(a / b) for b > 0: nearest integer, halves towards +infinity
RoundDiv(a, b) == (2 * a + b) \div (2 * b)

Max(a, b) == IF a >= b THEN a ELSE b

RECURSIVE GCD(_, _)
GCD(a, b) == IF b = 0 THEN a ELSE GCD(b, a % b)

RECURSIVE IsPowerOfTwo(_)
IsPowerOfTwo(n) == n = 1 \/ (n % 2 = 0 /\ IsPowerOfTwo(n \div 2))

\* a / b (a >= 0, b > 0) is a binary fraction: the division of two doubles
\* holding a and b is exact exactly in this case
Dyadic(a, b) == IsPowerOfTwo(b \div GCD(a, b))

\* parseFloat(field || dflt): an absent field and the number 0 are both falsy
OrDefault(field, dflt) == IF field = Absent \/ field[1] = 0 THEN dflt ELSE field[1]

VARIABLES
    inputData,      \* the request body
    ZONES,          \* module-level zone table
    DOUBLE_SPIN_CONFIG, \* module-level double-spin configuration
    pc,             \* position in calculatePRPDosage
    error,          \* message of the thrown Error, "" when none
    baseConcentrations,
    zoneIdx,        \* index of the zone the forEach is at
    useDoubleSpin,  \* calculatePRPDosage's per-zone decision
    attempt,        \* 1: first getTreatmentPlan call of the zone, 2: the even-tube recalculation
    iteration,      \* argument of the current getTreatmentPlan invocation
    dsArg,          \* useDoubleSpin argument of the current invocation
    retries,        \* recursive invocations made by the current resolution
    candidate,      \* the current invocation's plan, computed up to the retry test
    plan,           \* plan returned by getTreatmentPlan
    results,        \* zone results, in Object.keys(ZONES) order
    feedback,       \* concentration_feedback.type
    callNo,         \* number of the calculatePRPDosage call in progress
    firstCall,      \* input and output of the first completed call
    fpu,            \* outcomes of the inexact dilution quotients computed so far
    req,            \* the HTTP request the handler is serving
    res,            \* the HTTP response the handler has sent
    rejected,       \* candidates the current resolution has retried, in order
    plans           \* plans the current call has reported, one per zone

vars == << inputData, ZONES, DOUBLE_SPIN_CONFIG, pc, error, baseConcentrations,
           zoneIdx, useDoubleSpin, attempt, iteration, dsArg, retries, candidate,
           plan, results, feedback, callNo, firstCall, fpu, req, res, rejected, plans >>

NoBase == [ valid |-> FALSE ]
NoPlan == [ valid |-> FALSE ]
NoCall == [ valid |-> FALSE ]
NoRequest == [ method |-> "" ]
NoResponse == [ status |-> 0 ]

\* ------------------------------------------------- calculatePRPDosage: input
\* calculate.js 195-200: defaults 1.0 mL, 4.0x, 0.5x, 70 %, 20 %
patientThrombocytesGL(inp) == OrDefault(inp.thrombocytes, 0)
prpYieldPerTube(inp) == OrDefault(inp.prp_yield, 2)
prpConcentrationX(inp) == OrDefault(inp.prp_concentration, 8)
pppConcentrationX(inp) == OrDefault(inp.ppp_concentration, 1)
recoveryRate(inp) == OrDefault(inp.recovery_rate, 70)
activationRate(inp) == OrDefault(inp.activation_rate, 20)

\* calculate.js 203-217: the message of the first failing check, "" when all pass
ValidationError(inp) ==
    IF patientThrombocytesGL(inp) <= 0 THEN "Patient thrombocytes must be greater than 0"
    ELSE IF prpYieldPerTube(inp) <= 0 THEN "PRP yield per tube must be greater than 0"
    ELSE IF prpConcentrationX(inp) <= 0 THEN "PRP concentration must be greater than 0"
    ELSE IF recoveryRate(inp) < 0 \/ recoveryRate(inp) > 100
         THEN "Recovery rate must be between 0 and 100"
    ELSE IF activationRate(inp) < 0 \/ activationRate(inp) > 100
         THEN "Activation rate must be between 0 and 100"
    ELSE ""

\* calculate.js 220-236 (baseline = thrombocytes * 1000 = 8 units per 50 G/L;
\* the multipliers are halves, so baseline * x = 4 * thrombocytes * x)
BaseConcentrations(inp) ==
    [ valid |-> TRUE,
      baselinePlateletsPerUL |-> 8 * patientThrombocytesGL(inp),
      finalPrpConcentrationPerUL |-> 4 * patientThrombocytesGL(inp) * prpConcentrationX(inp),
      finalPppConcentrationPerUL |-> 4 * patientThrombocytesGL(inp) * pppConcentrationX(inp),
      prpYieldPerTube |-> prpYieldPerTube(inp),
      recoveryRate |-> recoveryRate(inp),
      activationRate |-> activationRate(inp),
      prpConcentrationX |-> prpConcentrationX(inp) ]

\* ---------------------------------------------------------- getTreatmentPlan
\* calculate.js 40-46: finalPrpConcentrationPerUL * (7.0 / 4.0) under double spin
\* (exact: finalPrpConcentrationPerUL is a multiple of 4 units)
effectivePrpConcentration(dsc, bc, ds) ==
    IF ds /\ dsc.enabled
    THEN (bc.finalPrpConcentrationPerUL * dsc.concentrationMultiplier) \div 4
    ELSE bc.finalPrpConcentrationPerUL

effectivePrpYield(dsc, bc, ds) ==
    IF ds /\ dsc.enabled THEN dsc.prpYieldPerTube ELSE bc.prpYieldPerTube

\* variant: half of the activated share is taken off the recovery used for
\* the tubes
effectiveRecoveryRate_activated(bc, ds) ==
    ((IF ds THEN 4 ELSE 5) * bc.recoveryRate * (200 - bc.activationRate)) \div 200

\* calculate.js 49: recoveryRate * 0.8 under double spin, in 1/5 percent
effectiveRecoveryRate(bc, ds) ==
    IF ds THEN 4 * bc.recoveryRate ELSE 5 * bc.recoveryRate

\* variant: the tubes are sized for minPlatelets times the recovery factor
tubesNeeded_scaledDown(zone, dsc, bc, it, ds) ==
    Max(1, CeilDiv(zone.minPlatelets * effectiveRecoveryRate(bc, ds),
                   500 * effectivePrpConcentration(dsc, bc, ds)
                       * effectivePrpYield(dsc, bc, ds)) + it)

\* calculate.js 65-71: ceil((minPlatelets / recoveryFactor) / (conc * 1000) / yield)
\* = ceil(500 * minPlatelets / (rate5 * conc * yield)) in the model's units
tubesNeeded(zone, dsc, bc, it, ds) ==
    Max(1, CeilDiv(500 * zone.minPlatelets,
                   effectiveRecoveryRate(bc, ds) * effectivePrpConcentration(dsc, bc, ds)
                       * effectivePrpYield(dsc, bc, ds)) + it)

\* calculate.js 81-115: the PPP volume <<num, den>>.  With enough PRP volume only
\* the dilution PPP can be non-zero; otherwise both branches of the
\* concentration test assign the whole top-up.
\* variant: the dilution is computed without the dilutionDenominator > 0 test
concentrationPpp_unguarded(conc, pppConc, prpML) ==
    IF conc > OPTIMAL_MAX_PLATELETS_PER_UL
       /\ OPTIMAL_MAX_PLATELETS_PER_UL - pppConc # 0
    THEN IF OPTIMAL_MAX_PLATELETS_PER_UL - pppConc > 0
         THEN << prpML * (conc - OPTIMAL_MAX_PLATELETS_PER_UL),
                 OPTIMAL_MAX_PLATELETS_PER_UL - pppConc >>
         ELSE << 0 - prpML * (conc - OPTIMAL_MAX_PLATELETS_PER_UL),
                 pppConc - OPTIMAL_MAX_PLATELETS_PER_UL >>
    ELSE << 0, 1 >>

concentrationPpp(conc, pppConc, prpML) ==
    IF conc > OPTIMAL_MAX_PLATELETS_PER_UL
       /\ OPTIMAL_MAX_PLATELETS_PER_UL - pppConc > 0
    THEN << prpML * (conc - OPTIMAL_MAX_PLATELETS_PER_UL),
            OPTIMAL_MAX_PLATELETS_PER_UL - pppConc >>
    ELSE << 0, 1 >>

\* variant: no PPP is added when the top-up would dilute below the window
volumeTopUpPpp_skip(minVolume, conc, pppConc, prpML) ==
    LET baseVolumeTopUp == minVolume - prpML
        testTotalPlatelets == prpML * conc + baseVolumeTopUp * pppConc
    IN  IF testTotalPlatelets >= OPTIMAL_MIN_PLATELETS_PER_UL * minVolume
        THEN << baseVolumeTopUp, 1 >>
        ELSE << 0, 1 >>

volumeTopUpPpp(minVolume, conc, pppConc, prpML) ==
    LET baseVolumeTopUp == minVolume - prpML
        testTotalPlatelets == prpML * conc + baseVolumeTopUp * pppConc
    IN  IF testTotalPlatelets >= OPTIMAL_MIN_PLATELETS_PER_UL * minVolume
        THEN << baseVolumeTopUp, 1 >>
        ELSE << baseVolumeTopUp, 1 >>

\* variant: PPP is only ever added to reach the minimum volume
totalPppNeeded_topUpOnly(minVolume, conc, pppConc, prpML) ==
    IF prpML >= minVolume
    THEN << 0, 1 >>
    ELSE volumeTopUpPpp(minVolume, conc, pppConc, prpML)

totalPppNeeded(minVolume, conc, pppConc, prpML) ==
    IF prpML >= minVolume
    THEN concentrationPpp(conc, pppConc, prpML)
    ELSE volumeTopUpPpp(minVolume, conc, pppConc, prpML)

\* calculate.js 160-172
StatusOf(belowMin, aboveMax) ==
    IF belowMin THEN "below_min" ELSE IF aboveMax THEN "above_max" ELSE "optimal"

\* calculate.js 35-129, 156-190: the candidate plan of one invocation
Candidate(zone, dsc, bc, it, ds) ==
    LET conc == effectivePrpConcentration(dsc, bc, ds)
        yield == effectivePrpYield(dsc, bc, ds)
        rate5 == effectiveRecoveryRate(bc, ds)
        tubes == tubesNeeded(zone, dsc, bc, it, ds)
        prpML == tubes * yield
        ppp == totalPppNeeded(zone.minVolume, conc, bc.finalPppConcentrationPerUL, prpML)
        den == ppp[2]
        injNum == prpML * den + ppp[1]
        platNum == prpML * conc * den + ppp[1] * bc.finalPppConcentrationPerUL
        \* finalMixtureConcentration = platNum / injNum, 0 when the volume is 0
        concLow == IF injNum > 0 THEN platNum < OPTIMAL_MIN_PLATELETS_PER_UL * injNum
                   ELSE 0 < OPTIMAL_MIN_PLATELETS_PER_UL
        concHigh == IF injNum > 0 THEN platNum > OPTIMAL_MAX_PLATELETS_PER_UL * injNum
                    ELSE FALSE
        \* recovered platelets/uL = baseline * rate / 100 = 12.5 * baseline8 * rate5
        recovered2 == 25 * bc.baselinePlateletsPerUL * rate5
        \* calculate.js 95: the dilution quotient is rounded to a double unless
        \* it is a binary fraction
        diluted == /\ prpML >= zone.minVolume
                   /\ conc > OPTIMAL_MAX_PLATELETS_PER_UL
                   /\ OPTIMAL_MAX_PLATELETS_PER_UL - bc.finalPppConcentrationPerUL > 0
    IN  [ valid |-> TRUE,
          iteration |-> it,
          doubleSpin |-> ds,
          tubesNeeded |-> tubes,
          totalPrpExtractedML |-> prpML,
          pppNum |-> ppp[1],
          den |-> den,
          injNum |-> injNum,
          platNum |-> platNum,
          effectivePrpConcentration |-> conc,
          effectivePrpYield |-> yield,
          concentrationStatus |-> StatusOf(concLow, concHigh),
          mixtureRoundedUp |-> FALSE,
          roundingKey |-> IF diluted /\ ~Dyadic(ppp[1], den)
                          THEN << prpML, conc, bc.finalPppConcentrationPerUL >>
                          ELSE << >>,
          plateletCountStatus |-> StatusOf(platNum < zone.minPlatelets * den,
                                           platNum > zone.maxPlatelets * den),
          recoveredPlateletsPerUL2 |-> recovered2,
          activatedPlateletsPerUL200 |-> recovered2 * bc.activationRate,
          inactivatedPlateletsPerUL200 |-> recovered2 * (100 - bc.activationRate),
          effectiveRecoveryRate |-> rate5 ]

\* calculate.js 126-154: does this candidate recurse with iteration + 1?
\* testTotalPlatelets = testTubesNeeded * conc * 1000 is 2 * tubes * conc in
\* platelet units (the code does not multiply by the yield).
\* variant: the retry rules are applied without the iteration budget
ShouldRetry_unbounded(zone, c) ==
    \/ c.concentrationStatus = "below_min"
    \/ c.plateletCountStatus = "below_min"
    \/ /\ c.plateletCountStatus = "above_max"
       /\ c.tubesNeeded > 1
       /\ 2 * (c.tubesNeeded - 1) * c.effectivePrpConcentration >= zone.minPlatelets

\* variant: a low concentration does not trigger a retry
ShouldRetry_countOnly(zone, c) ==
    /\ c.iteration < MAX_ITERATION
    /\ \/ c.plateletCountStatus = "below_min"
       \/ /\ c.plateletCountStatus = "above_max"
          /\ c.tubesNeeded > 1
          /\ 2 * (c.tubesNeeded - 1) * c.effectivePrpConcentration >= zone.minPlatelets

ShouldRetry(zone, c) ==
    /\ c.iteration < MAX_ITERATION
    /\ \/ c.concentrationStatus = "below_min"
       \/ c.plateletCountStatus = "below_min"
       \/ /\ c.plateletCountStatus = "above_max"
          /\ c.tubesNeeded > 1
          /\ 2 * (c.tubesNeeded - 1) * c.effectivePrpConcentration >= zone.minPlatelets

\* ------------------------------------------------------------------- actions
Zone == ZONES[zoneIdx]

\* variant: the threshold itself triggers double spin
DoubleSpinDecision_inclusive(dsc, bc) ==
    dsc.enabled /\ bc.finalPrpConcentrationPerUL <= dsc.minConcentrationThreshold

\* calculate.js 245-247
DoubleSpinDecision(dsc, bc) ==
    dsc.enabled /\ bc.finalPrpConcentrationPerUL < dsc.minConcentrationThreshold

\* calculate.js 135, 140, 151: the recursive call passes (zone, baseConcentrations,
\* iteration + 1) and leaves useDoubleSpin to its default, false
RetryDoubleSpin(ds) == FALSE

\* variant: tubes_needed reports the final tube count as it is
ZoneResult_sameTubes(zone, bc, p, ds) ==
    [ zone_key |-> zone.key,
      tubes_needed |-> p.tubesNeeded,
      final_tubes_needed |-> p.tubesNeeded,
      total_injection_volume_ml |-> RoundDiv(5 * p.injNum, p.den),
      total_prp_volume_ml |-> RoundDiv(5 * p.totalPrpExtractedML, 1),
      total_ppp_needed_ml |-> RoundDiv(5 * p.pppNum, p.den),
      min_volume_ml |-> 5 * zone.minVolume,
      concentration_status |-> p.concentrationStatus,
      platelet_count_status |-> p.plateletCountStatus,
      double_spin_used |-> ds,
      recovered_platelets_per_ul |-> RoundDiv(p.recoveredPlateletsPerUL2, 2),
      activated_platelets_per_ul |-> RoundDiv(p.activatedPlateletsPerUL200, 200),
      inactivated_platelets_per_ul |-> RoundDiv(p.inactivatedPlateletsPerUL200, 200),
      effective_recovery_rate |->
          IF p.effectiveRecoveryRate # 0 THEN p.effectiveRecoveryRate
          ELSE 5 * bc.recoveryRate ]

\* calculate.js 265-290 (volumes in tenths of a mL, as Math.round(x * 10) / 10)
ZoneResult(zone, bc, p, ds) ==
    [ zone_key |-> zone.key,
      tubes_needed |-> IF ds THEN p.tubesNeeded * 2 ELSE p.tubesNeeded,
      final_tubes_needed |-> p.tubesNeeded,
      total_injection_volume_ml |-> RoundDiv(5 * p.injNum, p.den),
      total_prp_volume_ml |-> RoundDiv(5 * p.totalPrpExtractedML, 1),
      total_ppp_needed_ml |-> RoundDiv(5 * p.pppNum, p.den),
      min_volume_ml |-> 5 * zone.minVolume,
      concentration_status |-> p.concentrationStatus,
      platelet_count_status |-> p.plateletCountStatus,
      double_spin_used |-> ds,
      recovered_platelets_per_ul |-> RoundDiv(p.recoveredPlateletsPerUL2, 2),
      activated_platelets_per_ul |-> RoundDiv(p.activatedPlateletsPerUL200, 200),
      inactivated_platelets_per_ul |-> RoundDiv(p.inactivatedPlateletsPerUL200, 200),
      effective_recovery_rate |->
          IF p.effectiveRecoveryRate # 0 THEN p.effectiveRecoveryRate
          ELSE 5 * bc.recoveryRate ]

\* variant: the feedback is derived from the last zone's final mixture
FeedbackType_mixture(bc) ==
    IF results[Len(results)].concentration_status = "below_min" THEN "warning"
    ELSE IF results[Len(results)].concentration_status = "above_max" THEN "info"
    ELSE "success"

\* calculate.js 297-306
FeedbackType(bc) ==
    IF bc.finalPrpConcentrationPerUL < OPTIMAL_MIN_PLATELETS_PER_UL THEN "warning"
    ELSE IF bc.finalPrpConcentrationPerUL > OPTIMAL_MAX_PLATELETS_PER_UL THEN "info"
    ELSE "success"

NoInput == [ r \in {} |-> 0 ]

\* the module is loaded and no request has been made
Init ==
    /\ inputData = NoInput
    /\ ZONES = ZONES_CONFIG
    /\ DOUBLE_SPIN_CONFIG = DOUBLE_SPIN_CONFIG_INIT
    /\ pc = "idle"
    /\ error = ""
    /\ baseConcentrations = NoBase
    /\ zoneIdx = 1
    /\ useDoubleSpin = FALSE
    /\ attempt = 1
    /\ iteration = 0
    /\ dsArg = FALSE
    /\ retries = 0
    /\ candidate = NoPlan
    /\ plan = NoPlan
    /\ results = << >>
    /\ feedback = ""
    /\ callNo = 1
    /\ firstCall = NoCall
    /\ fpu = {}
    /\ req = NoRequest
    /\ res = NoResponse
    /\ rejected = << >>
    /\ plans = << >>

\* calculate.js 35-129: getTreatmentPlan(zone, baseConcentrations, it, ds) is
\* entered and computes its candidate plan, up to the retry test of line 132
Invoke(it, ds) ==
    /\ iteration' = it
    /\ dsArg' = ds
    /\ candidate' = Candidate(Zone, DOUBLE_SPIN_CONFIG, baseConcentrations, it, ds)

\* calculate.js 193: calculatePRPDosage is called with a request body
Call ==
    /\ pc = "idle"
    /\ inputData' \in InputSpace
    /\ pc' = "start"
    /\ UNCHANGED << ZONES, DOUBLE_SPIN_CONFIG, error, baseConcentrations, zoneIdx,
                    useDoubleSpin, attempt, iteration, dsArg, retries, candidate, plan, results,
                    feedback, callNo, firstCall, fpu, req, res, rejected, plans >>

\* the same call, over the requests whose rates are left to their defaults
CallDefaultRates ==
    /\ pc = "idle"
    /\ inputData' \in DefaultRateInputs
    /\ pc' = "start"
    /\ UNCHANGED << ZONES, DOUBLE_SPIN_CONFIG, error, baseConcentrations, zoneIdx,
                    useDoubleSpin, attempt, iteration, dsArg, retries, candidate, plan, results,
                    feedback, callNo, firstCall, fpu, req, res, rejected, plans >>

\* calculate.js 308-330, 425: what a finished call hands back, its return value
\* or the message of the Error it threw
Output ==
    [ error |-> error,
      calculated_concentrations |-> baseConcentrations,
      concentration_feedback |-> feedback,
      zones |-> results ]

\* the same call, over the replayed requests
CallReplay ==
    /\ pc = "idle"
    /\ inputData' \in ReplayInputs
    /\ pc' = "start"
    /\ UNCHANGED << ZONES, DOUBLE_SPIN_CONFIG, error, baseConcentrations, zoneIdx,
                    useDoubleSpin, attempt, iteration, dsArg, retries, candidate, plan,
                    results, feedback, callNo, firstCall, fpu, req, res, rejected, plans >>

\* calculate.js 193: a further call after the previous one has finished; its
\* locals are fresh, the module-level tables are the ones the last call left
CallAgain ==
    /\ pc \in {"done", "error"}
    /\ callNo < MaxCalls
    /\ firstCall' = IF callNo = 1
                    THEN [ valid |-> TRUE, input |-> inputData, output |-> Output,
                           plans |-> plans ]
                    ELSE firstCall
    /\ callNo' = callNo + 1
    /\ inputData' \in ReplayInputs
    /\ pc' = "start"
    /\ error' = ""
    /\ baseConcentrations' = NoBase
    /\ zoneIdx' = 1
    /\ useDoubleSpin' = FALSE
    /\ attempt' = 1
    /\ iteration' = 0
    /\ dsArg' = FALSE
    /\ retries' = 0
    /\ candidate' = NoPlan
    /\ plan' = NoPlan
    /\ results' = << >>
    /\ feedback' = ""
    /\ rejected' = << >>
    /\ plans' = << >>
    /\ UNCHANGED << ZONES, DOUBLE_SPIN_CONFIG, fpu, req, res >>

\* the first call of a pair
CallPair ==
    /\ pc = "idle"
    /\ inputData' \in ActivationInputs
    /\ pc' = "start"
    /\ UNCHANGED << ZONES, DOUBLE_SPIN_CONFIG, error, baseConcentrations, zoneIdx,
                    useDoubleSpin, attempt, iteration, dsArg, retries, candidate, plan,
                    results, feedback, callNo, firstCall, fpu, req, res, rejected, plans >>

\* calculate.js 193: the second call of a pair, with the input of the first
\* call except for its activation_rate
CallOtherActivation ==
    /\ pc \in {"done", "error"}
    /\ callNo = 1
    /\ firstCall' = [ valid |-> TRUE, input |-> inputData, output |-> Output,
                      plans |-> plans ]
    /\ callNo' = callNo + 1
    /\ \E a \in OtherActivationRates \ {inputData.activation_rate} :
           inputData' = [inputData EXCEPT !.activation_rate = a]
    /\ pc' = "start"
    /\ error' = ""
    /\ baseConcentrations' = NoBase
    /\ zoneIdx' = 1
    /\ useDoubleSpin' = FALSE
    /\ attempt' = 1
    /\ iteration' = 0
    /\ dsArg' = FALSE
    /\ retries' = 0
    /\ candidate' = NoPlan
    /\ plan' = NoPlan
    /\ results' = << >>
    /\ feedback' = ""
    /\ rejected' = << >>
    /\ plans' = << >>
    /\ UNCHANGED << ZONES, DOUBLE_SPIN_CONFIG, fpu, req, res >>

\* calculate.js 203-217: a failing check throws before anything is computed
Reject ==
    /\ pc = "start"
    /\ ValidationError(inputData) # ""
    /\ error' = ValidationError(inputData)
    /\ pc' = "error"
    /\ UNCHANGED << inputData, ZONES, DOUBLE_SPIN_CONFIG, baseConcentrations, zoneIdx,
                    useDoubleSpin, attempt, iteration, dsArg, retries, candidate, plan, results,
                    feedback, callNo, firstCall, fpu, req, res, rejected, plans >>

\* calculate.js 219-238
Accept ==
    /\ pc = "start"
    /\ ValidationError(inputData) = ""
    /\ baseConcentrations' = BaseConcentrations(inputData)
    /\ results' = << >>
    /\ zoneIdx' = 1
    /\ pc' = "zone"
    /\ UNCHANGED << inputData, ZONES, DOUBLE_SPIN_CONFIG, error, useDoubleSpin, attempt,
                    iteration, dsArg, retries, candidate, plan, feedback, callNo, firstCall, fpu, req, res, rejected, plans >>

\* variant: the decision is stored in the shared configuration
BeginZone_storesDecision ==
    /\ pc = "zone"
    /\ useDoubleSpin' = DoubleSpinDecision(DOUBLE_SPIN_CONFIG, baseConcentrations)
    /\ DOUBLE_SPIN_CONFIG' = [DOUBLE_SPIN_CONFIG EXCEPT !.enabled = useDoubleSpin']
    /\ attempt' = 1
    /\ Invoke(0, useDoubleSpin')
    /\ retries' = 0
    /\ plan' = NoPlan
    /\ pc' = "resolve"
    /\ rejected' = << >>
    /\ UNCHANGED << inputData, ZONES, error, baseConcentrations,
                    zoneIdx, results, feedback, callNo, firstCall, fpu, req, res, plans >>

\* calculate.js 241-253, 262: the decision and the first getTreatmentPlan call
BeginZone ==
    /\ pc = "zone"
    /\ useDoubleSpin' = DoubleSpinDecision(DOUBLE_SPIN_CONFIG, baseConcentrations)
    /\ attempt' = 1
    /\ Invoke(0, useDoubleSpin')
    /\ retries' = 0
    /\ plan' = NoPlan
    /\ pc' = "resolve"
    /\ rejected' = << >>
    /\ UNCHANGED << inputData, ZONES, DOUBLE_SPIN_CONFIG, error, baseConcentrations,
                    zoneIdx, results, feedback, callNo, firstCall, fpu, req, res, plans >>

\* calculate.js 132-154: the invocation recurses
Retry ==
    /\ pc = "resolve"
    /\ ShouldRetry(Zone, candidate)
    /\ Invoke(iteration + 1, RetryDoubleSpin(dsArg))
    /\ retries' = retries + 1
    /\ rejected' = Append(rejected, candidate)
    /\ UNCHANGED << inputData, ZONES, DOUBLE_SPIN_CONFIG, pc, error, baseConcentrations,
                    zoneIdx, useDoubleSpin, attempt, plan, results, feedback, callNo,
                    firstCall, fpu, req, res, plans >>

\* calculate.js 95, 117-123: a dilution whose quotient was rounded leaves the
\* computed finalMixtureConcentration on 1,500,000 or on a neighbouring double.
\* Which one is a fixed function of the three operands; the model does not
\* compute it and keeps, in fpu, the outcome of every quotient met so far.
FpuOutcomes(key) ==
    IF \E e \in fpu : e.key = key
    THEN { e.above : e \in { x \in fpu : x.key = key } }
    ELSE BOOLEAN

\* calculate.js 123, 160-165: the plan of a candidate whose computed
\* finalMixtureConcentration is the double just above 1,500,000 (above) or
\* not, and the concentrationStatus that follows
Rounded(c, above) ==
    IF c.roundingKey = << >> THEN c
    ELSE [c EXCEPT !.mixtureRoundedUp = above,
                   !.concentrationStatus = IF above THEN "above_max" ELSE "optimal"]

\* variant: the labels of the first candidate of the resolution are kept
Return_staleLabels ==
    /\ pc = "resolve"
    /\ ~ShouldRetry(Zone, candidate)
    /\ \E above \in FpuOutcomes(candidate.roundingKey) :
           /\ plan' = IF rejected = << >> THEN Rounded(candidate, above)
                      ELSE [Rounded(candidate, above) EXCEPT
                                !.concentrationStatus = rejected[1].concentrationStatus,
                                !.plateletCountStatus = rejected[1].plateletCountStatus]
           /\ fpu' = IF candidate.roundingKey = << >> THEN fpu
                     ELSE fpu \cup {[ key |-> candidate.roundingKey, above |-> above ]}
    /\ pc' = IF useDoubleSpin /\ attempt = 1 THEN "even" ELSE "report"
    /\ UNCHANGED << inputData, ZONES, DOUBLE_SPIN_CONFIG, error, baseConcentrations,
                    zoneIdx, useDoubleSpin, attempt, iteration, dsArg, retries, candidate,
                    results, feedback, callNo, firstCall, req, res, rejected, plans >>

\* calculate.js 156-190: the invocation returns its plan
Return ==
    /\ pc = "resolve"
    /\ ~ShouldRetry(Zone, candidate)
    /\ IF candidate.roundingKey = << >>
       THEN plan' = candidate /\ fpu' = fpu
       ELSE \E above \in FpuOutcomes(candidate.roundingKey) :
                /\ plan' = Rounded(candidate, above)
                /\ fpu' = fpu \cup {[ key |-> candidate.roundingKey, above |-> above ]}
    /\ pc' = IF useDoubleSpin /\ attempt = 1 THEN "even" ELSE "report"
    /\ UNCHANGED << inputData, ZONES, DOUBLE_SPIN_CONFIG, error, baseConcentrations,
                    zoneIdx, useDoubleSpin, attempt, iteration, dsArg, retries, candidate, results,
                    feedback, callNo, firstCall, req, res, rejected, plans >>

\* calculate.js 256-260: an odd tube count is rounded up on the plan object and
\* getTreatmentPlan is called again with the same arguments as the first time
Recalculate ==
    /\ pc = "even"
    /\ plan.tubesNeeded % 2 # 0
    /\ plan' = [plan EXCEPT !.tubesNeeded = CeilDiv(plan.tubesNeeded, 2) * 2]
    /\ attempt' = 2
    /\ Invoke(0, TRUE)
    /\ retries' = 0
    /\ pc' = "resolve"
    /\ rejected' = << >>
    /\ UNCHANGED << inputData, ZONES, DOUBLE_SPIN_CONFIG, error, baseConcentrations,
                    zoneIdx, useDoubleSpin, results, feedback, callNo, firstCall, fpu, req, res, plans >>

\* calculate.js 256: the tube count is already even
KeepEven ==
    /\ pc = "even"
    /\ plan.tubesNeeded % 2 = 0
    /\ pc' = "report"
    /\ UNCHANGED << inputData, ZONES, DOUBLE_SPIN_CONFIG, error, baseConcentrations,
                    zoneIdx, useDoubleSpin, attempt, iteration, dsArg, retries, candidate, plan,
                    results, feedback, callNo, firstCall, fpu, req, res, rejected, plans >>

\* calculate.js 265-291: the zone's entry of results, then the next zone
Report ==
    /\ pc = "report"
    /\ results' = Append(results, ZoneResult(Zone, baseConcentrations, plan, useDoubleSpin))
    /\ IF zoneIdx < Len(ZONES)
       THEN zoneIdx' = zoneIdx + 1 /\ pc' = "zone"
       ELSE zoneIdx' = zoneIdx /\ pc' = "feedback"
    /\ plans' = Append(plans, plan)
    /\ UNCHANGED << inputData, ZONES, DOUBLE_SPIN_CONFIG, error, baseConcentrations,
                    useDoubleSpin, attempt, iteration, dsArg, retries, candidate, plan, feedback,
                    callNo, firstCall, fpu, req, res, rejected >>

\* calculate.js 293-330
Feedback ==
    /\ pc = "feedback"
    /\ feedback' = FeedbackType(baseConcentrations)
    /\ pc' = "done"
    /\ UNCHANGED << inputData, ZONES, DOUBLE_SPIN_CONFIG, error, baseConcentrations,
                    zoneIdx, useDoubleSpin, attempt, iteration, dsArg, retries, candidate, plan,
                    results, callNo, firstCall, fpu, req, res, rejected, plans >>

\* ------------------------------------------------------------------ handler
RequestSpace ==
    [ method : Methods, authorized : BOOLEAN, body : {NoInput} \cup HandlerBodies ]

\* calculate.js 427: error.message.includes('must be greater than'), over the
\* messages calculatePRPDosage throws (lines 204-216)
IncludesMustBeGreaterThan(message) ==
    message \in { "Patient thrombocytes must be greater than 0",
                  "PRP yield per tube must be greater than 0",
                  "PRP concentration must be greater than 0" }

\* calculate.js 402: !inputData.thrombocytes || inputData.thrombocytes <= 0
MissingOrInvalidThrombocytes(body) ==
    IF body.thrombocytes = Absent THEN TRUE
    ELSE body.thrombocytes[1] = 0 \/ body.thrombocytes[1] <= 0

\* res.status(code).json(...), the body named by its error or payload
Send(code, body) ==
    /\ res' = [ status |-> code, body |-> body ]
    /\ pc' = "responded"
    /\ UNCHANGED << inputData, ZONES, DOUBLE_SPIN_CONFIG, error, baseConcentrations,
                    zoneIdx, useDoubleSpin, attempt, iteration, dsArg, retries, candidate,
                    plan, results, feedback, callNo, firstCall, fpu, req, rejected, plans >>

\* calculate.js 337: the handler is invoked with a request
Request ==
    /\ pc = "idle"
    /\ req' \in RequestSpace
    /\ pc' = "handler"
    /\ UNCHANGED << inputData, ZONES, DOUBLE_SPIN_CONFIG, error, baseConcentrations,
                    zoneIdx, useDoubleSpin, attempt, iteration, dsArg, retries, candidate,
                    plan, results, feedback, callNo, firstCall, fpu, res, rejected, plans >>

\* calculate.js 346-349
Preflight ==
    /\ pc = "handler"
    /\ req.method = "OPTIONS"
    /\ Send(200, "ok")

\* calculate.js 352-363
Unauthorized ==
    /\ pc = "handler"
    /\ req.method = "POST"
    /\ ~req.authorized
    /\ Send(401, "Unauthorized")

\* calculate.js 366-386
Documentation ==
    /\ pc = "handler"
    /\ req.method = "GET"
    /\ Send(200, "documentation")

\* calculate.js 392-399
NoJson ==
    /\ pc = "handler"
    /\ req.method = "POST"
    /\ req.authorized
    /\ req.body = NoInput
    /\ Send(200, "No JSON data provided")

\* calculate.js 402-410
MissingThrombocytes ==
    /\ pc = "handler"
    /\ req.method = "POST"
    /\ req.authorized
    /\ req.body # NoInput
    /\ MissingOrInvalidThrombocytes(req.body)
    /\ Send(200, "Missing or invalid thrombocyte value")

\* calculate.js 413: calculatePRPDosage(inputData) is called
Calculate ==
    /\ pc = "handler"
    /\ req.method = "POST"
    /\ req.authorized
    /\ req.body # NoInput
    /\ ~MissingOrInvalidThrombocytes(req.body)
    /\ inputData' = req.body
    /\ pc' = "start"
    /\ UNCHANGED << ZONES, DOUBLE_SPIN_CONFIG, error, baseConcentrations, zoneIdx,
                    useDoubleSpin, attempt, iteration, dsArg, retries, candidate, plan,
                    results, feedback, callNo, firstCall, fpu, req, res, rejected, plans >>

\* calculate.js 415-419: the call returned
Respond ==
    /\ pc = "done"
    /\ req # NoRequest
    /\ Send(200, "data")

\* calculate.js 423
MethodNotAllowed ==
    /\ pc = "handler"
    /\ req.method \notin {"OPTIONS", "GET", "POST"}
    /\ Send(405, "Method not allowed")

\* calculate.js 425-432: the call threw
Catch ==
    /\ pc = "error"
    /\ req # NoRequest
    /\ IF IncludesMustBeGreaterThan(error)
       THEN Send(400, "Invalid input")
       ELSE Send(500, "Calculation error")

Next ==
    \/ Call
    \/ Reject
    \/ Accept
    \/ BeginZone
    \/ Retry
    \/ Return
    \/ Recalculate
    \/ KeepEven
    \/ Report
    \/ Feedback

Spec == Init /\ [][Next]_vars

\* the same behaviours, with every enabled step eventually taken: the call
\* tree is synchronous and nothing can suspend it (spec.md section 5)
Resolve ==
    \/ Reject
    \/ Accept
    \/ BeginZone
    \/ Retry
    \/ Return
    \/ Recalculate
    \/ KeepEven
    \/ Report
    \/ Feedback

NextDefaultRates == CallDefaultRates \/ Resolve

FairSpec == Init /\ [][NextDefaultRates]_vars /\ WF_vars(Resolve)

NextReplay == CallReplay \/ CallAgain \/ Resolve

\* several calls in sequence over the same module-level state
ReplaySpec == Init /\ [][NextReplay]_vars

NextActivation == CallPair \/ CallOtherActivation \/ Resolve

\* two calls whose inputs differ in activation_rate only
ActivationSpec == Init /\ [][NextActivation]_vars

NextHandler ==
    \/ Request
    \/ Preflight
    \/ Unauthorized
    \/ Documentation
    \/ NoJson
    \/ MissingThrombocytes
    \/ Calculate
    \/ Respond
    \/ MethodNotAllowed
    \/ Catch
    \/ Resolve

\* one request served by the handler
HandlerSpec == Init /\ [][NextHandler]_vars

\* -------------------------------------------------------------------- claims
\* getTreatmentPlan has just returned `plan` to calculatePRPDosage
Returned == pc \in {"even", "report"}

StatusLabels == {"below_min", "optimal", "above_max"}

\* C1: every plan getTreatmentPlan returns has
\* totalInjectionVolume >= zone.minVolume, whichever iteration the search
\* stopped at and with or without double spin.
C1_VolumeFloor ==
    Returned => plan.injNum >= Zone.minVolume * plan.den

\* C1 witness: a plan returned after at least one retry whose PRP volume alone
\* is below the floor and was topped up with PPP
C1_Witness ==
    /\ Returned
    /\ plan.iteration > 0
    /\ plan.totalPrpExtractedML < Zone.minVolume
    /\ plan.pppNum > 0
    /\ plan.injNum >= Zone.minVolume * plan.den

\* C2: every returned plan has totalPrpExtractedML >= 0,
\* totalPppNeededML >= 0 and tubesNeeded >= 1.
C2_NonNegative ==
    Returned =>
        /\ plan.totalPrpExtractedML >= 0
        /\ plan.den > 0
        /\ plan.pppNum >= 0
        /\ plan.tubesNeeded >= 1

\* C2 witness: a returned plan for a PRP above the window and a PPP at or above
\* 1.5M/uL, where the dilution denominator is not positive and no PPP is added
C2_Witness ==
    /\ Returned
    /\ plan.effectivePrpConcentration > OPTIMAL_MAX_PLATELETS_PER_UL
    /\ baseConcentrations.finalPppConcentrationPerUL >= OPTIMAL_MAX_PLATELETS_PER_UL
    /\ plan.totalPrpExtractedML >= Zone.minVolume
    /\ plan.pppNum = 0

\* C3: a zone resolution started with iteration = 0 terminates: the counter
\* moves only by +1, one retry at a time, never exceeds 3, and the resolution
\* then returns a complete plan carrying its status labels, in range or not.
C3_Terminates ==
    /\ [](pc = "resolve" => iteration \in 0..MAX_ITERATION /\ retries = iteration)
    /\ [][pc = "resolve" /\ pc' = "resolve" => iteration' = iteration + 1]_vars
    /\ [](Returned => /\ plan.valid
                      /\ plan.iteration = iteration
                      /\ plan.concentrationStatus \in StatusLabels
                      /\ plan.plateletCountStatus \in StatusLabels)
    /\ (pc = "resolve" ~> Returned)

\* C3 witness: a plan returned with the budget exhausted (three retries) and
\* still below the concentration window
C3_Witness ==
    /\ Returned
    /\ retries = MAX_ITERATION
    /\ plan.iteration = MAX_ITERATION
    /\ plan.concentrationStatus = "below_min"

\* C4: calculatePRPDosage keeps no state between calls: a later call with the
\* input of the first call, whatever was called in between, hands back the
\* output of the first call, and no call modifies ZONES or DOUBLE_SPIN_CONFIG
\* (the thresholds are immutable primitives).
C4_Deterministic ==
    /\ ZONES = ZONES_CONFIG
    /\ DOUBLE_SPIN_CONFIG = DOUBLE_SPIN_CONFIG_INIT
    /\ (firstCall.valid /\ pc \in {"done", "error"} /\ inputData = firstCall.input
            => Output = firstCall.output)

\* C4 witness: the last of the calls has finished; it repeats the first call's
\* double-spin request, after a call in between, with the first call's output
C4_Witness ==
    /\ callNo = MaxCalls
    /\ pc = "done"
    /\ firstCall.valid
    /\ inputData = firstCall.input
    /\ Len(results) = Len(ZONES)
    /\ results[1].double_spin_used
    /\ Output = firstCall.output

\* a field that is present with a value the validation is meant to refuse
NonPositive(field) == field # Absent /\ field[1] <= 0
OutsidePercent(field) == field # Absent /\ (field[1] < 0 \/ field[1] > 100)

InvalidInput(inp) ==
    \/ NonPositive(inp.thrombocytes)
    \/ NonPositive(inp.prp_yield)
    \/ NonPositive(inp.prp_concentration)
    \/ OutsidePercent(inp.recovery_rate)
    \/ OutsidePercent(inp.activation_rate)

\* C5: a call whose input has thrombocytes <= 0, prp_yield <= 0,
\* prp_concentration <= 0 (zero included) or a rate outside [0,100] throws
\* the validation error before any zone plan is computed.
C5_RejectsInvalid ==
    pc # "idle" /\ InvalidInput(inputData) =>
        /\ pc \in {"start", "error"}
        /\ candidate = NoPlan
        /\ results = << >>

\* C6: both zones report the same double_spin_used, which is true exactly
\* when finalPrpConcentrationPerUL < 1,000,000/uL, which is exactly when the
\* concentration feedback is a warning.
C6_DoubleSpinDecision ==
    pc = "done" =>
        /\ results[1].double_spin_used = results[2].double_spin_used
        /\ results[1].double_spin_used
               <=> (4 * patientThrombocytesGL(inputData) * prpConcentrationX(inputData)
                        < OPTIMAL_MIN_PLATELETS_PER_UL)
        /\ results[1].double_spin_used <=> (feedback = "warning")

\* C6 witness: a finished request exactly at 1,000,000/uL: no double spin and
\* a success feedback
C6_Witness ==
    /\ pc = "done"
    /\ baseConcentrations.finalPrpConcentrationPerUL = OPTIMAL_MIN_PLATELETS_PER_UL
    /\ ~results[1].double_spin_used
    /\ ~results[2].double_spin_used
    /\ feedback = "success"

\* C7: a zone result with double_spin_used = true reports a plan computed with
\* the double-spin yield, 2.0 mL per final tube, also after retries:
\* total_prp_volume_ml = final_tubes_needed * 2.0.
C7_DoubleSpinYield ==
    \A i \in 1..Len(results) :
        results[i].double_spin_used =>
            results[i].total_prp_volume_ml
                = results[i].final_tubes_needed * 5 * DOUBLE_SPIN_CONFIG_INIT.prpYieldPerTube

\* C8: a zone result with double_spin_used = true reports
\* effective_recovery_rate = 0.8 * recovery_rate and recovered platelets
\* derived from it; with double_spin_used = false the rate is recovery_rate.
C8_DoubleSpinRecovery ==
    \A i \in 1..Len(results) :
        LET r == results[i]
            rate5 == IF r.double_spin_used THEN 4 * recoveryRate(inputData)
                     ELSE 5 * recoveryRate(inputData)
        IN  /\ r.effective_recovery_rate = rate5
            /\ r.recovered_platelets_per_ul
                   = 100 * patientThrombocytesGL(inputData) * rate5

\* C9: an invocation under double spin plans with baseline * 7.0 as the
\* effective PRP concentration, whatever prp_concentration the caller gave.
C9_SevenTimesBaseline ==
    pc = "resolve" /\ dsArg =>
        candidate.effectivePrpConcentration
            = DOUBLE_SPIN_CONFIG_INIT.concentrationMultiplier
                  * baseConcentrations.baselinePlateletsPerUL

\* C10: tubes_needed = 2 * final_tubes_needed under double spin and
\* = final_tubes_needed otherwise; final_tubes_needed is the tube count of the
\* plan getTreatmentPlan returned for the zone.
C10_StartingTubes ==
    /\ \A i \in 1..Len(results) :
           results[i].tubes_needed
               = IF results[i].double_spin_used THEN 2 * results[i].final_tubes_needed
                 ELSE results[i].final_tubes_needed
    /\ (pc \in {"zone", "feedback", "done"} /\ Len(results) > 0
            => results[Len(results)].final_tubes_needed = plan.tubesNeeded)

\* C10 witness: a double-spin zone result with an odd final tube count, whose
\* tubes_needed is even only by the doubling
C10_Witness ==
    /\ pc = "done"
    /\ results[1].double_spin_used
    /\ results[1].final_tubes_needed % 2 = 1
    /\ results[1].tubes_needed = 2 * results[1].final_tubes_needed
    /\ ~(\E i \in 1..Len(results) : results[i].tubes_needed = results[i].final_tubes_needed)

\* C11: the feedback type is a function of finalPrpConcentrationPerUL =
\* thrombocytes x 1000 x prp_concentration alone: warning below 1,000,000,
\* info above 1,500,000, success otherwise, both boundaries included in
\* success; 200 G/L at 7.0x (1,400,000) gives success.
C11_FeedbackFromInitial ==
    pc = "done" =>
        LET final == 4 * patientThrombocytesGL(inputData) * prpConcentrationX(inputData)
        IN  /\ final = baseConcentrations.finalPrpConcentrationPerUL
            /\ (feedback = "warning") <=> (final < OPTIMAL_MIN_PLATELETS_PER_UL)
            /\ (feedback = "info") <=> (final > OPTIMAL_MAX_PLATELETS_PER_UL)
            /\ (feedback = "success") <=> /\ final >= OPTIMAL_MIN_PLATELETS_PER_UL
                                          /\ final <= OPTIMAL_MAX_PLATELETS_PER_UL
            /\ (inputData.thrombocytes = <<4>> /\ inputData.prp_concentration = <<14>>
                   => feedback = "success")

\* C11 witness: a finished request exactly at 1,500,000/uL whose feedback is
\* success although a zone's final mixture is outside the window
C11_Witness ==
    /\ pc = "done"
    /\ baseConcentrations.finalPrpConcentrationPerUL = OPTIMAL_MAX_PLATELETS_PER_UL
    /\ feedback = "success"
    /\ \E i \in 1..Len(results) : results[i].concentration_status # "optimal"

ClientError == 400..499

\* C12: an authorized POST whose body lacks thrombocytes (such as {}) or has
\* thrombocytes <= 0 is answered with a client-error status, without
\* calculatePRPDosage being called and without any plan being computed.
C12_MissingThrombocytesRejected ==
    /\ pc = "responded"
    /\ req.method = "POST"
    /\ req.authorized
    /\ req.body # NoInput
    /\ (req.body.thrombocytes = Absent \/ NonPositive(req.body.thrombocytes))
    => /\ res.status \in ClientError
       /\ inputData = NoInput
       /\ candidate = NoPlan
       /\ results = << >>

\* C13: every validation failure thrown by calculatePRPDosage (non-positive
\* yield or concentration, recovery or activation rate outside [0,100]) is
\* answered with a client-error status; a server error is kept for failures
\* that are not validation failures.
C13_ValidationIsClientError ==
    pc = "responded" /\ error # "" =>
        /\ error = ValidationError(inputData)
        /\ res.status \in ClientError

C15_DefaultsWhenAbsent ==
    baseConcentrations.valid =>
        LET Given(field, dflt) == IF field = Absent THEN dflt ELSE field[1]
        IN  /\ baseConcentrations.prpYieldPerTube = Given(inputData.prp_yield, 2)
            /\ baseConcentrations.prpConcentrationX = Given(inputData.prp_concentration, 8)
            /\ baseConcentrations.recoveryRate = Given(inputData.recovery_rate, 70)
            /\ baseConcentrations.activationRate = Given(inputData.activation_rate, 20)
            /\ baseConcentrations.finalPppConcentrationPerUL
                   = 4 * inputData.thrombocytes[1] * Given(inputData.ppp_concentration, 5)

\* C16: in a returned plan whose extracted PRP volume is at least
\* zone.minVolume, whose effective PRP concentration exceeds 1,500,000/uL and
\* whose PPP concentration is below 1,500,000/uL, the PPP added is
\* prpVolume x (conc - 1,500,000) / (1,500,000 - pppConc), none of it top-up,
\* and the final mixture is exactly at 1,500,000/uL, concentrationStatus optimal.
C16_DilutionToMax ==
    /\ Returned
    /\ plan.totalPrpExtractedML >= Zone.minVolume
    /\ plan.effectivePrpConcentration > OPTIMAL_MAX_PLATELETS_PER_UL
    /\ baseConcentrations.finalPppConcentrationPerUL < OPTIMAL_MAX_PLATELETS_PER_UL
    => /\ plan.pppNum * (OPTIMAL_MAX_PLATELETS_PER_UL
                             - baseConcentrations.finalPppConcentrationPerUL)
              = plan.den * plan.totalPrpExtractedML
                    * (plan.effectivePrpConcentration - OPTIMAL_MAX_PLATELETS_PER_UL)
       /\ plan.platNum = OPTIMAL_MAX_PLATELETS_PER_UL * plan.injNum
       /\ plan.concentrationStatus = "optimal"

\* C17: when the extracted PRP volume is below zone.minVolume, the top-up of
\* zone.minVolume - totalPrpExtractedML is added only if the blend at
\* zone.minVolume stays at or above 1,000,000/uL; otherwise the invocation
\* adds 0 mL of PPP and leaves the shortfall to the retry.
C17_TopUpOnlyWithinWindow ==
    pc = "resolve" /\ candidate.totalPrpExtractedML < Zone.minVolume =>
        LET baseVolumeTopUp == Zone.minVolume - candidate.totalPrpExtractedML
            blend == candidate.totalPrpExtractedML * candidate.effectivePrpConcentration
                         + baseVolumeTopUp * baseConcentrations.finalPppConcentrationPerUL
        IN  IF blend >= OPTIMAL_MIN_PLATELETS_PER_UL * Zone.minVolume
            THEN candidate.pppNum = baseVolumeTopUp * candidate.den
            ELSE candidate.pppNum = 0

BelowMin(p) ==
    p.concentrationStatus = "below_min" \/ p.plateletCountStatus = "below_min"

\* C18: while iteration < 3 a candidate whose final mixture is below
\* 1,000,000/uL or whose platelet total is below zone.minPlatelets is not
\* returned, the search recurses with iteration + 1; so a returned plan with a
\* below_min label was computed at iteration 3.
C18_BelowMinOnlyAtBudget ==
    /\ [][pc = "resolve" /\ iteration < MAX_ITERATION /\ BelowMin(candidate)
              => pc' = "resolve" /\ iteration' = iteration + 1 /\ plan' = plan]_vars
    /\ [](Returned /\ BelowMin(plan) => plan.iteration = MAX_ITERATION)

\* C18 witness: a full-scalp plan returned at iteration 3 with enough platelets
\* and a final mixture still below 1,000,000/uL
C18_Witness ==
    /\ Returned
    /\ zoneIdx = 2
    /\ plan.iteration = MAX_ITERATION
    /\ plan.concentrationStatus = "below_min"
    /\ plan.plateletCountStatus # "below_min"

\* C19: within one zone resolution the tube count never decreases from one
\* iteration to the next, for single-spin and double-spin resolutions and for
\* every valid prp_yield.
C19_TubesNeverDecrease ==
    [][pc = "resolve" /\ pc' = "resolve"
           => candidate'.tubesNeeded >= candidate.tubesNeeded]_vars

\* C20: while iteration < 3, a candidate that meets the concentration minimum
\* and zone.minPlatelets, exceeds zone.maxPlatelets and has tubesNeeded > 1 is
\* retried exactly when one tube fewer still carries zone.minPlatelets,
\* (tubesNeeded - 1) x effectiveYield x effectiveConcentration x 1000 >=
\* zone.minPlatelets, and is returned as it is otherwise, for every yield.
C20_ProbeOneTubeFewer ==
    [][/\ pc = "resolve"
       /\ iteration < MAX_ITERATION
       /\ ~BelowMin(candidate)
       /\ candidate.plateletCountStatus = "above_max"
       /\ candidate.tubesNeeded > 1
       => ((pc' = "resolve" /\ iteration' = iteration + 1)
              <=> (candidate.tubesNeeded - 1) * candidate.effectivePrpYield
                      * candidate.effectivePrpConcentration >= Zone.minPlatelets)]_vars

\* a / b <= c / d for b, d > 0, compared by whole parts and remainders
FracLeq(a, b, c, d) ==
    \/ a \div b < c \div d
    \/ a \div b = c \div d /\ (a % b) * d <= (c % d) * b

\* C21: when a candidate is rejected only because its platelet total exceeds
\* zone.maxPlatelets (priority 3), the plan finally returned has no more tubes
\* and no more platelets than that candidate.
C21_CountRetryKeepsCandidate ==
    Returned =>
        \A i \in 1..Len(rejected) :
            ~BelowMin(rejected[i]) =>
                /\ plan.tubesNeeded <= rejected[i].tubesNeeded
                /\ FracLeq(plan.platNum, plan.den, rejected[i].platNum, rejected[i].den)

\* C22: in every returned plan the labels agree with the plan's own numbers,
\* those of the final iteration: concentrationStatus is below_min iff
\* finalMixtureConcentration < 1,000,000, above_max iff it is > 1,500,000 and
\* optimal otherwise; plateletCountStatus likewise against zone.minPlatelets
\* and zone.maxPlatelets.
C22_LabelsAgree ==
    Returned =>
        LET low == IF plan.injNum > 0
                   THEN plan.platNum < OPTIMAL_MIN_PLATELETS_PER_UL * plan.injNum
                   ELSE TRUE
            high == /\ plan.injNum > 0
                    /\ \/ plan.platNum > OPTIMAL_MAX_PLATELETS_PER_UL * plan.injNum
                       \/ /\ plan.platNum = OPTIMAL_MAX_PLATELETS_PER_UL * plan.injNum
                          /\ plan.mixtureRoundedUp
            few == plan.platNum < Zone.minPlatelets * plan.den
            many == plan.platNum > Zone.maxPlatelets * plan.den
        IN  /\ plan.iteration = iteration
            /\ plan.iteration = Len(rejected)
            /\ plan.tubesNeeded = candidate.tubesNeeded
            /\ (plan.concentrationStatus = "below_min") <=> low
            /\ (plan.concentrationStatus = "above_max") <=> (~low /\ high)
            /\ (plan.concentrationStatus = "optimal") <=> (~low /\ ~high)
            /\ (plan.plateletCountStatus = "below_min") <=> few
            /\ (plan.plateletCountStatus = "above_max") <=> (~few /\ many)
            /\ (plan.plateletCountStatus = "optimal") <=> (~few /\ ~many)

\* C22 witness: a plan returned after retries, within the window, whose
\* concentration label differs from that of the resolution's first candidate
C22_Witness ==
    /\ Returned
    /\ Len(rejected) > 0
    /\ rejected[1].concentrationStatus = "below_min"
    /\ plan.concentrationStatus = "optimal"
    /\ plan.platNum >= OPTIMAL_MIN_PLATELETS_PER_UL * plan.injNum

C24_EvenTubesUnderDoubleSpin ==
    \A i \in 1..Len(results) :
        results[i].double_spin_used => results[i].final_tubes_needed % 2 = 0

\* C25: for every valid input (recovery_rate in (0,100], ppp_concentration
\* >= 0) the returned plan's platelet total is at least zone.minPlatelets and
\* its plateletCountStatus is never below_min.
C25_PlateletsReachMin ==
    Returned =>
        /\ plan.platNum >= Zone.minPlatelets * plan.den
        /\ plan.plateletCountStatus # "below_min"

\* C25 witness: with a recovery rate of 100 % (recovery factor 1) and no double
\* spin, a plan is returned without retries whose extracted PRP carries exactly
\* zone.minPlatelets, the tightest sizing there is
C25_Witness ==
    /\ Returned
    /\ baseConcentrations.recoveryRate = 100
    /\ ~useDoubleSpin
    /\ plan.iteration = 0
    /\ plan.totalPrpExtractedML * plan.effectivePrpConcentration = Zone.minPlatelets
    /\ plan.platNum >= Zone.minPlatelets * plan.den

\* C26: for every valid input whose PPP concentration is below 1,500,000/uL
\* the returned plan's final mixture concentration does not exceed 1,500,000
\* (concentrationStatus is never above_max), also when the extracted PRP
\* volume is below zone.minVolume and only top-up PPP is added.
C26_MixtureAtMostMax ==
    Returned /\ baseConcentrations.finalPppConcentrationPerUL < OPTIMAL_MAX_PLATELETS_PER_UL =>
        plan.platNum <= OPTIMAL_MAX_PLATELETS_PER_UL * plan.injNum

\* C27: the full_scalp plan never needs fewer tubes than the temporal_crown
\* plan of the same request.
C27_FullScalpNeedsNoFewerTubes ==
    pc = "done" => results[2].final_tubes_needed >= results[1].final_tubes_needed

====
